---- MODULE Spec2Model ----
(***************************************************************************)
(* A model of osrm::storage::io (include/storage/io.hpp): the File handle  *)
(* over a binary input stream and the per-artifact decoders built on it.   *)
(*                                                                         *)
(* uint32_t and uint64_t keep their widths.  A record type defined outside *)
(* io.hpp (FingerPrint, NodeT, EdgeT, OriginalEdgeData, QueryNode) is laid *)
(* out as its fields in order, one byte each.                              *)
(*                                                                         *)
(* The file is a sequence of bytes.  The stream is the record              *)
(* [pos, fail, eof]: the filebuf's offset and the ios failbit / eofbit.    *)
(* Every method of File and every decoder is one action; `last` records    *)
(* the call that has just returned (or thrown): its name, the stream       *)
(* before it, its arguments, the exception it threw and what it left in    *)
(* the caller's buffers.                                                   *)
(***************************************************************************)
EXTENDS Integers, Sequences, FiniteSets, TLC

VARIABLES file,      \* the bytes of the file on disk
          openable,  \* whether input_stream.open succeeds on the path
          handle,    \* "none" | "open" | "dead" (constructor threw) | "aborted"
          stream,    \* [pos, fail, eof] of File::input_stream
          last       \* the call that has just ended

vars == <<file, openable, handle, stream, last>>

----------------------------------------------------------------------------
(* Bounds of the model *)

\* largest element count a caller passes or a writer stores
MaxCount == 2
\* largest sizeof(T) of the generic trivially copyable record type T
MaxSizeof == 2
\* how far past the end of the file skip() is followed
MaxPast == 2
\* how many bytes a truncated artifact may miss at its end
MaxDrop == 1

----------------------------------------------------------------------------
(* Sizes of the fixed-width types *)

SizeofU32 == 4
SizeofU64 == 8

Min(a, b) == IF a < b THEN a ELSE b

\* the content of caller memory before a call writes to it: no byte of a file
Old == 0 - 1

\* '\n'
NL == 10

TypeSizes == 1..MaxSizeof

\* The value of a little-endian unsigned integer, as memcpy into a uintN_t
\* on a little-endian machine reads it.
RECURSIVE DecodeLE(_)
DecodeLE(bytes) ==
    IF bytes = <<>> THEN 0
    ELSE bytes[1] + 256 * DecodeLE(Tail(bytes))

\* The bytes a writer stores for the unsigned integer v of the given width.
RECURSIVE EncodeLE(_, _)
EncodeLE(v, width) ==
    IF width = 0 THEN <<>>
    ELSE <<v % 256>> \o EncodeLE(v \div 256, width - 1)

\* A count whose bytes past the third are zero (the model follows no larger count).
Fits(bytes) == \A i \in 1..Len(bytes) : i > 3 => bytes[i] = 0

Fill(n, v) == [i \in 1..n |-> v]

\* bytes of dest overwritten from its start, the rest kept
Overwrite(dest, bytes) ==
    [i \in 1..Len(dest) |-> IF i <= Len(bytes) THEN bytes[i] ELSE dest[i]]

\* dest cut into records of `size` bytes
Records(dest, size) ==
    [i \in 1..(Len(dest) \div size) |-> SubSeq(dest, (i - 1) * size + 1, i * size)]

----------------------------------------------------------------------------
(* util::FingerPrint *)

FingerPrintFields == <<"magic", "contractor", "graph", "rtree", "query">>
SizeofFingerPrint == Len(FingerPrintFields)

\* FingerPrint::GetValid(): the fingerprint of the running build
GetValid == [magic |-> 7, contractor |-> 1, graph |-> 2, rtree |-> 3, query |-> 4]

AsFingerPrint(bytes) ==
    [magic |-> bytes[1], contractor |-> bytes[2], graph |-> bytes[3],
     rtree |-> bytes[4], query |-> bytes[5]]

FingerPrintBytes(fp) == <<fp.magic, fp.contractor, fp.graph, fp.rtree, fp.query>>

IsMagicNumberOK(valid, other) == other.magic = valid.magic
TestContractor(valid, other) == other.contractor = valid.contractor
TestGraphUtil(valid, other) == other.graph = valid.graph
TestRTree(valid, other) == other.rtree = valid.rtree
TestQueryObjects(valid, other) == other.query = valid.query

----------------------------------------------------------------------------
(* The stream: boost::filesystem::ifstream over the file *)

FreshStream == [pos |-> 0, fail |-> FALSE, eof |-> FALSE]

Avail(h) == IF h.pos >= Len(file) THEN 0 ELSE Len(file) - h.pos

\* input_stream.read(dest, n), n > 0: [h, bytes]; gcount() is Len(bytes).
\* A stream that is not good() extracts nothing and sets failbit; a read that
\* meets the end of the file stores what there was and sets eofbit and failbit.
IstreamRead(h, n) ==
    IF h.fail \/ h.eof
    THEN [h |-> [h EXCEPT !.fail = TRUE], bytes |-> <<>>]
    ELSE LET got == Min(n, Avail(h))
         IN [h |-> [pos |-> h.pos + got, fail |-> got < n, eof |-> got < n],
             bytes |-> SubSeq(file, h.pos + 1, h.pos + got)]

\* input_stream.tellg(): [h, ret]
Tellg(h) ==
    IF h.fail \/ h.eof
    THEN [h |-> [h EXCEPT !.fail = TRUE], ret |-> -1]
    ELSE [h |-> h, ret |-> h.pos]

\* input_stream.seekg(0, input_stream.end): clears eofbit, no-op when fail()
SeekgEnd(h) ==
    LET c == [h EXCEPT !.eof = FALSE]
    IN IF c.fail THEN c ELSE [c EXCEPT !.pos = Len(file)]

\* input_stream.seekg(off, input_stream.beg)
SeekgBeg(h, off) ==
    LET c == [h EXCEPT !.eof = FALSE]
    IN IF c.fail THEN c
       ELSE IF off < 0 THEN [c EXCEPT !.fail = TRUE]
       ELSE [c EXCEPT !.pos = off]

\* what the caller sees as the read cursor
Cursor(h) == Tellg(h).ret

----------------------------------------------------------------------------
(* File's methods as functions of the stream *)

\* the model's mutant of readInto: the short-read test is missing
ReadIntoNoShortCheck(h, dest, count, size) ==
    IF count = 0
    THEN [h |-> h, dest |-> dest, exc |-> "none"]
    ELSE LET r == IstreamRead(h, count * size)
             bytes_read == Len(r.bytes)
         IN [h |-> r.h, dest |-> Overwrite(dest, r.bytes),
             exc |-> IF bytes_read = 0 THEN "ErrnoError" ELSE "none"]

\* File::readInto(T *dest, count) with sizeof(T) = size: [h, dest, exc]
ReadInto(h, dest, count, size) ==
    IF count = 0
    THEN [h |-> h, dest |-> dest, exc |-> "none"]
    ELSE LET r == IstreamRead(h, count * size)
             bytes_read == Len(r.bytes)
             expected_bytes == count * size
         IN [h |-> r.h, dest |-> Overwrite(dest, r.bytes),
             exc |-> IF bytes_read = 0 THEN "ErrnoError"
                     ELSE IF bytes_read < expected_bytes THEN "UnexpectedEOF"
                     ELSE "none"]

\* File::readOne<T>(): [h, value (the bytes of tmp), exc]
ReadOne(h, size) ==
    LET r == ReadInto(h, Fill(size, Old), 1, size)
    IN [h |-> r.h, value |-> r.dest, exc |-> r.exc]

\* the model's mutant of skip: the seek is from the start of the file
SkipFromBeg(h, element_count, size) == [h EXCEPT !.pos = element_count * size]

\* File::skip<T>(element_count): boost::iostreams::seek goes to the filebuf's
\* pubseekoff(off, cur) and touches no state flag of the stream.
Skip(h, element_count, size) == [h EXCEPT !.pos = h.pos + element_count * size]

\* the model's mutant of readAndCheckFingerprint: the magic number is not compared
ReadAndCheckFingerprintNoMagic(h) ==
    LET r == ReadOne(h, SizeofFingerPrint)
    IN IF r.exc # "none" THEN [h |-> r.h, exc |-> r.exc, ret |-> FALSE]
       ELSE LET fingerprint == AsFingerPrint(r.value)
                valid == GetValid
            IN [h |-> r.h, exc |-> "none",
                ret |-> TestContractor(valid, fingerprint)
                        /\ TestGraphUtil(valid, fingerprint)
                        /\ TestRTree(valid, fingerprint)
                        /\ TestQueryObjects(valid, fingerprint)]

\* the model's mutant of readAndCheckFingerprint: the r-tree test is missing
ReadAndCheckFingerprintNoRTree(h) ==
    LET r == ReadOne(h, SizeofFingerPrint)
    IN IF r.exc # "none" THEN [h |-> r.h, exc |-> r.exc, ret |-> FALSE]
       ELSE LET fingerprint == AsFingerPrint(r.value)
                valid == GetValid
            IN [h |-> r.h, exc |-> "none",
                ret |-> IsMagicNumberOK(valid, fingerprint)
                        /\ TestContractor(valid, fingerprint)
                        /\ TestGraphUtil(valid, fingerprint)
                        /\ TestQueryObjects(valid, fingerprint)]

\* File::readAndCheckFingerprint(): [h, exc, ret]
ReadAndCheckFingerprint(h) ==
    LET r == ReadOne(h, SizeofFingerPrint)
    IN IF r.exc # "none" THEN [h |-> r.h, exc |-> r.exc, ret |-> FALSE]
       ELSE LET fingerprint == AsFingerPrint(r.value)
                valid == GetValid
            IN [h |-> r.h, exc |-> "none",
                ret |-> IsMagicNumberOK(valid, fingerprint)
                        /\ TestContractor(valid, fingerprint)
                        /\ TestGraphUtil(valid, fingerprint)
                        /\ TestRTree(valid, fingerprint)
                        /\ TestQueryObjects(valid, fingerprint)]

\* File::File(filename, check_fingerprint): [h, exc]
FileCtor(check_fingerprint) ==
    IF ~openable THEN [h |-> FreshStream, exc |-> "OpenError"]
    ELSE IF check_fingerprint
    THEN LET r == ReadAndCheckFingerprint(FreshStream)
         IN IF r.exc # "none" THEN [h |-> r.h, exc |-> r.exc]
            ELSE IF ~r.ret THEN [h |-> r.h, exc |-> "FingerprintMismatch"]
            ELSE [h |-> r.h, exc |-> "none"]
    ELSE [h |-> FreshStream, exc |-> "none"]

\* File::size(): [h, ret].  A ret of -1 is pos_type(-1), which the conversion to
\* std::size_t turns into SIZE_MAX.
Size(h) ==
    LET current_pos == Tellg(h)
        atend == SeekgEnd(current_pos.h)
        length == Tellg(atend)
        back == SeekgBeg(length.h, current_pos.ret)
    IN [h |-> back, ret |-> length.ret]

\* std::getline's lines of a byte sequence: split at '\n', a last line without
\* its '\n' counted when it is not empty
RECURSIVE SplitLines(_, _)
SplitLines(bytes, thisline) ==
    IF bytes = <<>> THEN (IF thisline = <<>> THEN <<>> ELSE <<thisline>>)
    ELSE IF bytes[1] = NL THEN <<thisline>> \o SplitLines(Tail(bytes), <<>>)
    ELSE SplitLines(Tail(bytes), Append(thisline, bytes[1]))

\* File::readLines(): [h, result].  The stream throws no ios_base::failure (no
\* exception mask is set), so the loop ends when getline fails: at the end of
\* the file, with eofbit and failbit set.
ReadLines(h) ==
    IF h.fail \/ h.eof
    THEN [h |-> [h EXCEPT !.fail = TRUE], result |-> <<>>]
    ELSE [h |-> [pos |-> IF h.pos < Len(file) THEN Len(file) ELSE h.pos,
                 fail |-> TRUE, eof |-> TRUE],
          result |-> SplitLines(SubSeq(file, h.pos + 1, Len(file)), <<>>)]

\* std::vector<T>::resize(count): new elements are value-initialised
Resize(data, count, size) ==
    [i \in 1..count |-> IF i <= Len(data) THEN data[i] ELSE Fill(size, 0)]

\* the bytes of data.data()
Flatten(data, size) ==
    [k \in 1..(Len(data) * size) |-> data[((k - 1) \div size) + 1][((k - 1) % size) + 1]]

\* the model's mutant of deserializeVector: one record too few is read
DeserializeVectorOneShort(h, data, size) ==
    LET c == ReadOne(h, SizeofU64)
    IN IF c.exc # "none" THEN [h |-> c.h, data |-> data, exc |-> c.exc]
       ELSE LET count == DecodeLE(c.value)
                resized == Resize(data, count, size)
                r == ReadInto(c.h, Flatten(resized, size),
                              IF count > 0 THEN count - 1 ELSE 0, size)
            IN [h |-> r.h, data |-> Records(r.dest, size), exc |-> r.exc]

\* File::deserializeVector(std::vector<T> &data): [h, data, exc]
DeserializeVector(h, data, size) ==
    LET c == ReadOne(h, SizeofU64)
    IN IF c.exc # "none" THEN [h |-> c.h, data |-> data, exc |-> c.exc]
       ELSE LET count == DecodeLE(c.value)
                resized == Resize(data, count, size)
                r == ReadInto(c.h, Flatten(resized, size), count, size)
            IN [h |-> r.h, data |-> Records(r.dest, size), exc |-> r.exc]

----------------------------------------------------------------------------
(* The decoders *)

NodeTFields == <<"first_edge">>
SizeofNodeT == Len(NodeTFields)
EdgeTFields == <<"target", "data">>
SizeofEdgeT == Len(EdgeTFields)

NoHeader == [checksum |-> Old, number_of_nodes |-> Old, number_of_edges |-> Old]

\* readHSGRHeader(input_file): [h, exc, header, warned].
\* ndebug is TRUE in a release build, where BOOST_ASSERT_MSG compiles to nothing;
\* exc "AssertionFailed" is the assertion ending the process in a debug build.
ReadHSGRHeader(h, ndebug) ==
    LET fp == ReadOne(h, SizeofFingerPrint)
    IN IF fp.exc # "none"
       THEN [h |-> fp.h, exc |-> fp.exc, header |-> NoHeader, warned |-> FALSE]
       ELSE
       LET warned == ~TestGraphUtil(AsFingerPrint(fp.value), GetValid)
           ck == ReadOne(fp.h, SizeofU32)
       IN IF ck.exc # "none"
          THEN [h |-> ck.h, exc |-> ck.exc, header |-> NoHeader, warned |-> warned]
          ELSE
          LET nn == ReadOne(ck.h, SizeofU64)
          IN IF nn.exc # "none"
             THEN [h |-> nn.h, exc |-> nn.exc, header |-> NoHeader, warned |-> warned]
             ELSE
             LET ne == ReadOne(nn.h, SizeofU64)
             IN IF ne.exc # "none"
                THEN [h |-> ne.h, exc |-> ne.exc, header |-> NoHeader,
                      warned |-> warned]
                ELSE
                LET header == [checksum |-> DecodeLE(ck.value),
                               number_of_nodes |-> DecodeLE(nn.value),
                               number_of_edges |-> DecodeLE(ne.value)]
                IN IF ~ndebug /\ header.number_of_nodes = 0
                   THEN [h |-> ne.h, exc |-> "AssertionFailed", header |-> NoHeader,
                         warned |-> warned]
                   ELSE [h |-> ne.h, exc |-> "none", header |-> header,
                         warned |-> warned]

\* the model's mutant of readHSGR: the edge array is read before the node array
ReadHSGREdgesFirst(h, node_buffer, number_of_nodes, edge_buffer, number_of_edges) ==
    LET e == ReadInto(h, edge_buffer, number_of_edges, SizeofEdgeT)
    IN IF e.exc # "none"
       THEN [h |-> e.h, node_buffer |-> node_buffer, edge_buffer |-> e.dest,
             exc |-> e.exc]
       ELSE LET n == ReadInto(e.h, node_buffer, number_of_nodes, SizeofNodeT)
            IN [h |-> n.h, node_buffer |-> n.dest, edge_buffer |-> e.dest,
                exc |-> n.exc]

\* readHSGR(input_file, node_buffer, number_of_nodes, edge_buffer, number_of_edges)
ReadHSGR(h, node_buffer, number_of_nodes, edge_buffer, number_of_edges) ==
    LET n == ReadInto(h, node_buffer, number_of_nodes, SizeofNodeT)
    IN IF n.exc # "none"
       THEN [h |-> n.h, node_buffer |-> n.dest, edge_buffer |-> edge_buffer,
             exc |-> n.exc]
       ELSE LET e == ReadInto(n.h, edge_buffer, number_of_edges, SizeofEdgeT)
            IN [h |-> e.h, node_buffer |-> n.dest, edge_buffer |-> e.dest,
                exc |-> e.exc]

\* extractor::OriginalEdgeData, in the order of the .edges record
OriginalEdgeDataFields ==
    <<"via_geometry", "name_id", "turn_instruction", "lane_data_id",
      "travel_mode", "entry_classid", "pre_turn_bearing", "post_turn_bearing">>
SizeofOriginalEdgeData == Len(OriginalEdgeDataFields)

AsOriginalEdgeData(bytes) ==
    [via_geometry |-> bytes[1], name_id |-> bytes[2], turn_instruction |-> bytes[3],
     lane_data_id |-> bytes[4], travel_mode |-> bytes[5], entry_classid |-> bytes[6],
     pre_turn_bearing |-> bytes[7], post_turn_bearing |-> bytes[8]]

\* the output pointers of readEdges and the field each receives
EdgeLists ==
    [geometry_list |-> "via_geometry",
     name_id_list |-> "name_id",
     turn_instruction_list |-> "turn_instruction",
     lane_data_id_list |-> "lane_data_id",
     travel_mode_list |-> "travel_mode",
     entry_class_id_list |-> "entry_classid",
     pre_turn_bearing_list |-> "pre_turn_bearing",
     post_turn_bearing_list |-> "post_turn_bearing"]

\* the model's mutant of the loop of readEdges: the name id is stored one
\* position late
RECURSIVE ReadEdgesLoopShifted(_, _, _, _)
ReadEdgesLoopShifted(h, lists, i, number_of_edges) ==
    IF ~(i < number_of_edges) THEN [h |-> h, lists |-> lists, exc |-> "none"]
    ELSE LET r == ReadOne(h, SizeofOriginalEdgeData)
         IN IF r.exc # "none" THEN [h |-> r.h, lists |-> lists, exc |-> r.exc]
            ELSE LET current_edge_data == AsOriginalEdgeData(r.value)
                     stored == [l \in DOMAIN EdgeLists |->
                                  IF l = "name_id_list" /\ i + 2 <= Len(lists[l])
                                  THEN [lists[l] EXCEPT ![i + 2] =
                                           current_edge_data[EdgeLists[l]]]
                                  ELSE [lists[l] EXCEPT ![i + 1] =
                                           current_edge_data[EdgeLists[l]]]]
                 IN ReadEdgesLoopShifted(r.h, stored, i + 1, number_of_edges)

\* the loop of readEdges from index i on: [h, lists, exc]
RECURSIVE ReadEdgesLoop(_, _, _, _)
ReadEdgesLoop(h, lists, i, number_of_edges) ==
    IF ~(i < number_of_edges) THEN [h |-> h, lists |-> lists, exc |-> "none"]
    ELSE LET r == ReadOne(h, SizeofOriginalEdgeData)
         IN IF r.exc # "none" THEN [h |-> r.h, lists |-> lists, exc |-> r.exc]
            ELSE LET current_edge_data == AsOriginalEdgeData(r.value)
                     stored == [l \in DOMAIN EdgeLists |->
                                  [lists[l] EXCEPT ![i + 1] =
                                      current_edge_data[EdgeLists[l]]]]
                 IN ReadEdgesLoop(r.h, stored, i + 1, number_of_edges)

\* readEdges(edges_input_file, ..._list, number_of_edges)
ReadEdges(h, lists, number_of_edges) == ReadEdgesLoop(h, lists, 0, number_of_edges)

\* extractor::QueryNode, in the order of the .nodes record
QueryNodeFields == <<"lon", "lat", "node_id">>
SizeofQueryNode == Len(QueryNodeFields)

\* util::Coordinate::IsValid(): longitude and latitude within their ranges
ValidRange == 0..8
IsValid(coordinate) == coordinate.lon \in ValidRange /\ coordinate.lat \in ValidRange

\* the loop of readNodes from index i on: [h, coordinate_list, osmnodeid_list, exc]
RECURSIVE ReadNodesLoop(_, _, _, _, _, _)
ReadNodesLoop(h, coordinate_list, osmnodeid_list, i, number_of_coordinates, ndebug) ==
    IF ~(i < number_of_coordinates)
    THEN [h |-> h, coordinate_list |-> coordinate_list,
          osmnodeid_list |-> osmnodeid_list, exc |-> "none"]
    ELSE LET r == ReadOne(h, SizeofQueryNode)
         IN IF r.exc # "none"
            THEN [h |-> r.h, coordinate_list |-> coordinate_list,
                  osmnodeid_list |-> osmnodeid_list, exc |-> r.exc]
            ELSE LET coordinate == [lon |-> r.value[1], lat |-> r.value[2]]
                     coords == [coordinate_list EXCEPT ![i + 1] = coordinate]
                     ids == Append(osmnodeid_list, r.value[3])
                 IN IF ~ndebug /\ ~IsValid(coordinate)
                    THEN [h |-> r.h, coordinate_list |-> coords,
                          osmnodeid_list |-> ids, exc |-> "AssertionFailed"]
                    ELSE ReadNodesLoop(r.h, coords, ids, i + 1, number_of_coordinates,
                                       ndebug)

\* readNodes(nodes_file, coordinate_list, osmnodeid_list, number_of_coordinates)
ReadNodes(h, coordinate_list, osmnodeid_list, number_of_coordinates, ndebug) ==
    ReadNodesLoop(h, coordinate_list, osmnodeid_list, 0, number_of_coordinates, ndebug)

----------------------------------------------------------------------------
(* The files the model opens *)

\* n payload bytes, each in 1..9
Payload(n, seed) == [i \in 1..n |-> 1 + ((seed + i) % 9)]

Truncate(f, d) == SubSeq(f, 1, Len(f) - Min(d, Len(f)))

\* a fingerprint that differs from the build's in the fields of `wrong`
FingerPrintWith(wrong) ==
    [magic |-> GetValid.magic + (IF "magic" \in wrong THEN 1 ELSE 0),
     contractor |-> GetValid.contractor + (IF "contractor" \in wrong THEN 1 ELSE 0),
     graph |-> GetValid.graph + (IF "graph" \in wrong THEN 1 ELSE 0),
     rtree |-> GetValid.rtree + (IF "rtree" \in wrong THEN 1 ELSE 0),
     query |-> GetValid.query + (IF "query" \in wrong THEN 1 ELSE 0)]

FieldNames == {FingerPrintFields[k] : k \in 1..SizeofFingerPrint}

\* the build's fingerprint, each fingerprint wrong in one field, the magic
\* number with one other field, and all fields
FingerPrints ==
    {FingerPrintWith(wrong) :
        wrong \in {{}} \cup {{f} : f \in FieldNames}
                  \cup {{"magic", f} : f \in FieldNames} \cup {FieldNames}}

\* a fingerprint and one more byte; the build's fingerprint cut short
FingerPrintFiles ==
    {FingerPrintBytes(fp) \o Payload(1, 0) : fp \in FingerPrints}
    \cup {Truncate(FingerPrintBytes(GetValid), d) : d \in 0..(MaxDrop + 1)}

\* a length-prefixed vector: an 8-byte count and that many records, whole or
\* with its last bytes missing
VectorFiles ==
    {Truncate(EncodeLE(n, SizeofU64) \o Payload(n * size, 0), d) :
        n \in 0..MaxCount, size \in TypeSizes, d \in 0..MaxDrop}

Hsgr(fp, n, e) ==
    FingerPrintBytes(fp) \o EncodeLE(0, SizeofU32) \o EncodeLE(n, SizeofU64)
    \o EncodeLE(e, SizeofU64) \o Payload(n * SizeofNodeT + e * SizeofEdgeT, 0)

\* .hsgr: Fingerprint, HSGRHeader, node array, edge array
HsgrFiles ==
    {Hsgr(GetValid, n, MaxCount - n) : n \in 0..MaxCount}
    \cup {Hsgr(FingerPrintWith({f}), 1, 1) : f \in {"magic", "graph"}}
    \cup {Truncate(Hsgr(GetValid, 1, 1), 1)}

\* .edges: count OriginalEdgeData records, after their count
EdgeFiles ==
    {Payload(m * SizeofOriginalEdgeData, 0) : m \in 0..MaxCount}
    \cup {Truncate(Payload(MaxCount * SizeofOriginalEdgeData, 0), 1)}

\* .nodes: count QueryNode records, after their count (seed 6 stores a
\* latitude out of range)
NodeFiles ==
    {Payload(m * SizeofQueryNode, 0) : m \in 0..MaxCount}
    \cup {Payload(MaxCount * SizeofQueryNode, 6)}

\* .datasource_names: text lines
LineFiles == {<<97>>, <<97, NL>>, <<97, NL, 98>>, <<NL, NL, 98, NL>>}

Files ==
    FingerPrintFiles \cup VectorFiles \cup HsgrFiles \cup EdgeFiles \cup NodeFiles
    \cup LineFiles

----------------------------------------------------------------------------
(* The calls *)

Call(op, args, exc, out) ==
    [op |-> op, pre |-> stream, args |-> args, exc |-> exc, out |-> out]

\* the bytes of the file from off bytes past the cursor, at most n
Peek(h, off, n) ==
    SubSeq(file, Min(h.pos + off, Len(file)) + 1, Min(h.pos + off + n, Len(file)))

\* a stored count the model follows: at most one more than a writer stores
Followed(bytes) == Fits(bytes) /\ DecodeLE(bytes) <= MaxCount + 1

\* the count that lies off bytes past the cursor, when a whole one does, is followed
CountFollowed(h, off) ==
    Len(Peek(h, off, SizeofU64)) = SizeofU64 => Followed(Peek(h, off, SizeofU64))

Init ==
    /\ file \in Files
    /\ openable \in BOOLEAN
    /\ openable = FALSE => file = <<>>
    /\ handle = "none"
    /\ stream = FreshStream
    /\ last = [op |-> "none", pre |-> FreshStream, args |-> <<>>, exc |-> "none",
               out |-> <<>>]

\* File file(filename, check_fingerprint)
Construct ==
    /\ handle = "none"
    /\ \E check_fingerprint \in BOOLEAN :
          LET r == FileCtor(check_fingerprint)
          IN /\ handle' = IF r.exc = "none" THEN "open" ELSE "dead"
             /\ stream' = r.h
             /\ last' = Call("File", [check_fingerprint |-> check_fingerprint],
                             r.exc, <<>>)
    /\ UNCHANGED <<file, openable>>

\* file.readInto(dest, count), dest a buffer of count records
CallReadInto ==
    /\ handle = "open"
    /\ \E size \in TypeSizes, count \in 0..MaxCount :
          LET r == ReadInto(stream, Fill(count * size, Old), count, size)
          IN /\ stream' = r.h
             /\ last' = Call("readInto", [count |-> count, size |-> size],
                             r.exc, r.dest)
    /\ UNCHANGED <<file, openable, handle>>

\* file.skip<T>(element_count)
CallSkip ==
    /\ handle = "open"
    /\ \E size \in TypeSizes, element_count \in 0..MaxCount :
          /\ stream.pos + element_count * size <= Len(file) + MaxPast
          /\ stream' = Skip(stream, element_count, size)
          /\ last' = Call("skip", [count |-> element_count, size |-> size],
                          "none", <<>>)
    /\ UNCHANGED <<file, openable, handle>>

\* file.size()
CallSize ==
    /\ handle = "open"
    /\ LET r == Size(stream)
       IN /\ stream' = r.h
          /\ last' = Call("size", <<>>, "none", r.ret)
    /\ UNCHANGED <<file, openable, handle>>

\* file.readLines()
CallReadLines ==
    /\ handle = "open"
    /\ LET r == ReadLines(stream)
       IN /\ stream' = r.h
          /\ last' = Call("readLines", <<>>, "none", r.result)
    /\ UNCHANGED <<file, openable, handle>>

\* file.readElementCount64()
CallReadElementCount64 ==
    /\ handle = "open"
    /\ Fits(Peek(stream, 0, SizeofU64))
    /\ LET r == ReadOne(stream, SizeofU64)
       IN /\ stream' = r.h
          /\ last' = Call("readElementCount64", <<>>, r.exc,
                          IF r.exc = "none" THEN DecodeLE(r.value) ELSE Old)
    /\ UNCHANGED <<file, openable, handle>>

\* the vectors a caller passes to deserializeVector: empty, or longer than
\* any stored count
OldVectors(size) == {<<>>, [i \in 1..(MaxCount + 1) |-> Fill(size, Old)]}

\* file.deserializeVector(data)
CallDeserializeVector ==
    /\ handle = "open"
    /\ CountFollowed(stream, 0)
    /\ \E size \in TypeSizes :
          \E data \in OldVectors(size) :
             LET r == DeserializeVector(stream, data, size)
             IN /\ stream' = r.h
                /\ last' = Call("deserializeVector", [size |-> size, data |-> data],
                                r.exc, r.data)
    /\ UNCHANGED <<file, openable, handle>>

\* readHSGRHeader(file)
CallReadHSGRHeader ==
    /\ handle = "open"
    /\ CountFollowed(stream, SizeofFingerPrint + SizeofU32)
    /\ CountFollowed(stream, SizeofFingerPrint + SizeofU32 + SizeofU64)
    /\ \E ndebug \in BOOLEAN :
          LET r == ReadHSGRHeader(stream, ndebug)
          IN /\ stream' = r.h
             /\ handle' = IF r.exc = "AssertionFailed" THEN "aborted" ELSE "open"
             /\ last' = Call("readHSGRHeader", [ndebug |-> ndebug], r.exc,
                             [header |-> r.header, warned |-> r.warned])
    /\ UNCHANGED <<file, openable>>

\* readHSGR(file, node_buffer, header.number_of_nodes, edge_buffer,
\*          header.number_of_edges), right after readHSGRHeader returned header
CallReadHSGR ==
    /\ handle = "open"
    /\ last.op = "readHSGRHeader"
    /\ last.exc = "none"
    /\ LET header == last.out.header
           r == ReadHSGR(stream,
                         Fill(header.number_of_nodes * SizeofNodeT, Old),
                         header.number_of_nodes,
                         Fill(header.number_of_edges * SizeofEdgeT, Old),
                         header.number_of_edges)
       IN /\ stream' = r.h
          /\ last' = Call("readHSGR", [header |-> header, header_pre |-> last.pre],
                          r.exc,
                          [node_buffer |-> r.node_buffer,
                           edge_buffer |-> r.edge_buffer])
    /\ UNCHANGED <<file, openable, handle>>

\* readEdges(file, geometry_list, ..., number_of_edges), every list a buffer
\* of MaxCount entries
CallReadEdges ==
    /\ handle = "open"
    /\ \E number_of_edges \in 0..MaxCount :
          LET r == ReadEdges(stream, [l \in DOMAIN EdgeLists |-> Fill(MaxCount, Old)],
                             number_of_edges)
          IN /\ stream' = r.h
             /\ last' = Call("readEdges", [count |-> number_of_edges], r.exc, r.lists)
    /\ UNCHANGED <<file, openable, handle>>

NoCoordinate == [lon |-> Old, lat |-> Old]

\* readNodes(file, coordinate_list, osmnodeid_list, number_of_coordinates)
CallReadNodes ==
    /\ handle = "open"
    /\ \E number_of_coordinates \in 0..MaxCount, ndebug \in BOOLEAN :
          LET r == ReadNodes(stream, Fill(MaxCount, NoCoordinate), <<>>,
                             number_of_coordinates, ndebug)
          IN /\ stream' = r.h
             /\ handle' = IF r.exc = "AssertionFailed" THEN "aborted" ELSE "open"
             /\ last' = Call("readNodes",
                             [count |-> number_of_coordinates, ndebug |-> ndebug],
                             r.exc,
                             [coordinate_list |-> r.coordinate_list,
                              osmnodeid_list |-> r.osmnodeid_list])
    /\ UNCHANGED <<file, openable>>

Next ==
    \/ Construct
    \/ CallReadInto
    \/ CallSkip
    \/ CallSize
    \/ CallReadLines
    \/ CallReadElementCount64
    \/ CallDeserializeVector
    \/ CallReadHSGRHeader
    \/ CallReadHSGR
    \/ CallReadEdges
    \/ CallReadNodes

Spec == Init /\ [][Next]_vars

----------------------------------------------------------------------------
(* The claims *)

\* the bytes between the cursor of h and the end of the file
BytesLeft(h) == IF h.pos < Len(file) THEN Len(file) - h.pos ELSE 0

\* the bytes of the file at offsets from .. from + n - 1
FileAt(from, n) == SubSeq(file, from + 1, from + n)

Thrown == {"ErrnoError", "UnexpectedEOF"}

\* C1: a readInto of count > 0 records, called with fewer than count * sizeof(T)
\* bytes (or none) between the cursor and the end of the file, throws; a
\* readInto that returns has copied exactly count records.
C1_ShortReadThrows ==
    (last.op = "readInto" /\ last.args.count > 0) =>
        /\ BytesLeft(last.pre) < last.args.count * last.args.size
              => last.exc \in Thrown
        /\ last.exc = "none"
              => last.out = FileAt(last.pre.pos, last.args.count * last.args.size)

\* a readInto met the end of the file inside its span and threw
C1_Witness ==
    /\ last.op = "readInto"
    /\ ~last.pre.fail
    /\ 0 < BytesLeft(last.pre)
    /\ BytesLeft(last.pre) < last.args.count * last.args.size
    /\ last.exc = "UnexpectedEOF"

\* the file starts with a whole Fingerprint whose magic number is not the build's
BadMagic == Len(file) >= SizeofFingerPrint /\ file[1] # GetValid.magic

\* C2 as stated: opening a file whose leading Fingerprint has another magic
\* number always fails with the fingerprint-mismatch error, and no decoder
\* (readHSGRHeader in particular) ever works on a handle over such a file.
C2_Original ==
    BadMagic =>
        /\ last.op = "File" => last.exc = "FingerprintMismatch"
        /\ handle # "open"
        /\ ~(last.op = "readHSGRHeader" /\ last.exc = "none")

\* C2 as amended: opening such a file with check_fingerprint = true always
\* fails with the fingerprint-mismatch error, whatever the other fields are,
\* and the handle that failed to construct is never used.
C2_Amended ==
    /\ (BadMagic /\ last.op = "File" /\ last.args.check_fingerprint)
          => (last.exc = "FingerprintMismatch" /\ handle = "dead")
    /\ handle = "dead" => last.op = "File"

\* only the magic number is wrong, and the checked open failed
C2_Witness ==
    /\ BadMagic
    /\ FileAt(1, SizeofFingerPrint - 1) = Tail(FingerPrintBytes(GetValid))
    /\ last.op = "File"
    /\ last.args.check_fingerprint
    /\ last.exc = "FingerprintMismatch"

\* the file starts with a whole Fingerprint equal to the build's in the magic
\* number and in the contractor, graph-util, r-tree and query-objects fields
MatchesBuild ==
    /\ Len(file) >= SizeofFingerPrint
    /\ file[1] = GetValid.magic
    /\ file[2] = GetValid.contractor
    /\ file[3] = GetValid.graph
    /\ file[4] = GetValid.rtree
    /\ file[5] = GetValid.query

\* C3: a File opened with check_fingerprint = true is constructed exactly when
\* the first Fingerprint record matches the build's on the magic number and on
\* all four dimensions; a whole Fingerprint that differs in any of them gives
\* the fingerprint-mismatch error; on success the cursor is one Fingerprint
\* past the start.
C3_CheckedOpen ==
    (last.op = "File" /\ last.args.check_fingerprint /\ openable) =>
        /\ last.exc = "none" <=> MatchesBuild
        /\ (Len(file) >= SizeofFingerPrint /\ ~MatchesBuild)
              => last.exc = "FingerprintMismatch"
        /\ last.exc = "none"
              => (handle = "open" /\ Cursor(stream) = SizeofFingerPrint)
        /\ last.exc # "none" => handle = "dead"

\* only the r-tree field is wrong, and the checked open failed
C3_Witness ==
    /\ last.op = "File"
    /\ last.args.check_fingerprint
    /\ Len(file) >= SizeofFingerPrint
    /\ FileAt(0, SizeofFingerPrint) =
          FingerPrintBytes([GetValid EXCEPT !.rtree = GetValid.rtree + 1])
    /\ last.exc = "FingerprintMismatch"

\* a whole Fingerprint and HSGRHeader lie at the cursor of h, and the header's
\* number_of_nodes is n and its number_of_edges is e
HeaderAt(h, n, e) ==
    /\ ~h.fail
    /\ ~h.eof
    /\ BytesLeft(h) >= SizeofFingerPrint + SizeofU32 + SizeofU64 + SizeofU64
    /\ FileAt(h.pos + SizeofFingerPrint + SizeofU32, SizeofU64)
          = EncodeLE(n, SizeofU64)
    /\ FileAt(h.pos + SizeofFingerPrint + SizeofU32 + SizeofU64, SizeofU64)
          = EncodeLE(e, SizeofU64)

\* C4 as stated: readHSGRHeader on a header with number_of_nodes = 0 always
\* fails and never returns a header, whatever number_of_edges is.
C4_ZeroNodesRejected ==
    (last.op = "readHSGRHeader"
     /\ \E e \in 0..(MaxCount + 1) : HeaderAt(last.pre, 0, e))
        => last.exc # "none"

\* the vector artifact of n records of `size` bytes lies at the cursor of h
VectorAt(h, n, size) ==
    /\ ~h.fail
    /\ ~h.eof
    /\ BytesLeft(h) >= SizeofU64 + n * size
    /\ FileAt(h.pos, SizeofU64) = EncodeLE(n, SizeofU64)

\* C5: on an 8-byte count n followed by n records, deserializeVector leaves
\* the vector with exactly n elements, element i equal to record i, whatever
\* the vector held, and the cursor 8 + n * sizeof(T) bytes further.
C5_DeserializeVector ==
    last.op = "deserializeVector" =>
        \A n \in 0..(MaxCount + 1) :
            VectorAt(last.pre, n, last.args.size) =>
                /\ last.exc = "none"
                /\ Len(last.out) = n
                /\ \A i \in 1..n :
                      last.out[i] = FileAt(last.pre.pos + SizeofU64
                                           + (i - 1) * last.args.size,
                                           last.args.size)
                /\ Cursor(stream) = last.pre.pos + SizeofU64 + n * last.args.size

\* a vector that held more elements received the MaxCount records of the file
C5_Witness ==
    /\ last.op = "deserializeVector"
    /\ VectorAt(last.pre, MaxCount, last.args.size)
    /\ Len(last.args.data) > MaxCount
    /\ Len(last.out) = MaxCount
    /\ last.exc = "none"

\* the place of each output sequence's field in an OriginalEdgeData record
FieldOffset ==
    [geometry_list |-> 0, name_id_list |-> 1, turn_instruction_list |-> 2,
     lane_data_id_list |-> 3, travel_mode_list |-> 4, entry_class_id_list |-> 5,
     pre_turn_bearing_list |-> 6, post_turn_bearing_list |-> 7]

\* C6: readEdges called with number_of_edges = m on a stream holding m
\* records writes exactly positions 0..m-1 of every output sequence, position
\* i of each from its field of record i; the output sequences are the eight
\* lists geometry, name id, turn instruction, lane-data id, travel mode,
\* entry-class id, pre-turn bearing and post-turn bearing.
C6_EdgesAligned ==
    (last.op = "readEdges" /\ ~last.pre.fail /\ ~last.pre.eof
     /\ BytesLeft(last.pre) >= last.args.count * SizeofOriginalEdgeData) =>
        /\ last.exc = "none"
        /\ DOMAIN last.out = DOMAIN FieldOffset
        /\ Cardinality(DOMAIN last.out) = 8
        /\ \A l \in DOMAIN FieldOffset :
              \A i \in 0..(MaxCount - 1) :
                 last.out[l][i + 1] =
                    IF i < last.args.count
                    THEN file[last.pre.pos + i * SizeofOriginalEdgeData
                              + FieldOffset[l] + 1]
                    ELSE Old
        /\ Cursor(stream) = last.pre.pos + last.args.count * SizeofOriginalEdgeData

\* readEdges decoded MaxCount records
C6_Witness ==
    /\ last.op = "readEdges"
    /\ last.args.count = MaxCount
    /\ last.exc = "none"
    /\ last.out["post_turn_bearing_list"][MaxCount] # Old

\* skip<T>(n) then readInto of k records, against reading and discarding n
\* records and then reading k records: the same bytes in the destination,
\* the same exception of the final readInto, the same cursor
SkipLikeDiscard(h, n, k, size) ==
    LET skipped == ReadInto(Skip(h, n, size), Fill(k * size, Old), k, size)
        discarded == ReadInto(h, Fill(n * size, Old), n, size)
        reread == ReadInto(discarded.h, Fill(k * size, Old), k, size)
    IN /\ skipped.dest = reread.dest
       /\ skipped.exc = reread.exc
       /\ Cursor(skipped.h) = Cursor(reread.h)

\* C7 as stated: for every stream content, cursor and n, skip<T>(n) followed
\* by readInto of k records gives the same result and cursor as discarding n
\* records and reading k records.
C7_Original ==
    handle = "open" =>
        \A size \in TypeSizes, n \in 0..MaxCount, k \in 0..MaxCount :
            SkipLikeDiscard(stream, n, k, size)

\* C7 as amended: the same for k > 0; a skip beyond the end of the file is no
\* error, and the readInto that follows it throws.
C7_Amended ==
    handle = "open" =>
        \A size \in TypeSizes, n \in 0..MaxCount :
            /\ \A k \in 1..MaxCount : SkipLikeDiscard(stream, n, k, size)
            /\ Skip(stream, n, size).fail = stream.fail
            /\ \A k \in 1..MaxCount :
                  stream.pos + n * size >= Len(file)
                     => ReadInto(Skip(stream, n, size), Fill(k * size, Old),
                                 k, size).exc \in Thrown

\* a skip went beyond the end of the file, and the readInto after it threw
C7_Witness ==
    /\ last.op = "readInto"
    /\ ~last.pre.fail
    /\ last.pre.pos > Len(file)
    /\ last.exc = "ErrnoError"

\* what the caller's buffers held before the call
Untouched ==
    CASE last.op = "readInto" ->
            last.out = Fill(last.args.count * last.args.size, Old)
      [] last.op = "deserializeVector" -> last.out = last.args.data
      [] last.op = "readHSGR" ->
            /\ \A i \in 1..Len(last.out.node_buffer) : last.out.node_buffer[i] = Old
            /\ \A i \in 1..Len(last.out.edge_buffer) : last.out.edge_buffer[i] = Old
      [] last.op = "readEdges" ->
            \A l \in DOMAIN last.out :
               \A i \in 1..Len(last.out[l]) : last.out[l][i] = Old
      [] last.op = "readNodes" ->
            /\ last.out.osmnodeid_list = <<>>
            /\ \A i \in 1..Len(last.out.coordinate_list) :
                  last.out.coordinate_list[i] = NoCoordinate
      [] OTHER -> TRUE

\* C8 as stated: when readInto, readHSGR, readEdges, readNodes or
\* deserializeVector throws, every destination is as it was before the call.
C8_NoPartialResults == last.exc \in Thrown => Untouched

\* C9 as stated: in every state of an open handle size() returns the length
\* of the file and leaves the cursor where it was, so that a following read
\* gives what it would have given without the call.
C9_SizeKeepsCursor ==
    last.op = "size" =>
        /\ last.out = Len(file)
        /\ Cursor(stream) = Cursor(last.pre)
        /\ \A size \in TypeSizes, k \in 0..MaxCount :
              LET after == ReadInto(stream, Fill(k * size, Old), k, size)
                  without == ReadInto(last.pre, Fill(k * size, Old), k, size)
              IN after.dest = without.dest /\ after.exc = without.exc

\* C10: on Fingerprint, HSGRHeader, node array, edge array, readHSGRHeader
\* returns the header's fields and leaves the cursor after the header; readHSGR
\* called with the header's counts fills the node buffer with the node array
\* and then the edge buffer with the edge array and ends with the cursor after
\* the edge array (an empty edge array is read as no bytes).
C10_HsgrInOrder ==
    last.op = "readHSGR" =>
        \A n \in 0..(MaxCount + 1), e \in 0..(MaxCount + 1) :
            LET start == last.args.header_pre.pos
                nodes == start + SizeofFingerPrint + SizeofU32 + SizeofU64 + SizeofU64
                edges == nodes + n * SizeofNodeT
            IN (HeaderAt(last.args.header_pre, n, e)
                /\ Len(file) >= edges + e * SizeofEdgeT) =>
                  /\ last.args.header.checksum
                        = DecodeLE(FileAt(start + SizeofFingerPrint, SizeofU32))
                  /\ last.args.header.number_of_nodes = n
                  /\ last.args.header.number_of_edges = e
                  /\ last.pre.pos = nodes
                  /\ last.exc = "none"
                  /\ last.out.node_buffer = FileAt(nodes, n * SizeofNodeT)
                  /\ last.out.edge_buffer = FileAt(edges, e * SizeofEdgeT)
                  /\ Cursor(stream) = edges + e * SizeofEdgeT

\* a header with nodes and no edges was followed by readHSGR
C10_Witness ==
    /\ last.op = "readHSGR"
    /\ last.args.header.number_of_nodes = MaxCount
    /\ last.args.header.number_of_edges = 0
    /\ last.exc = "none"
    /\ Len(last.out.node_buffer) = MaxCount * SizeofNodeT
    /\ last.out.edge_buffer = <<>>

====
